---- MODULE Spec2Model ----
(***************************************************************************)
(* Model of python/tink/jwt/_jwt_validator.py: the JwtValidator policy     *)
(* object (its constructor and accessors) and the validate function.       *)
(*                                                                         *)
(* Time is counted in whole seconds.  A datetime is a record               *)
(* [t |-> seconds, tzinfo |-> aware?]; a timedelta is an integer number of *)
(* seconds.  An Optional[...] value is the empty tuple (None) or a         *)
(* one-element tuple holding the value.  Instants are unbounded integers:   *)
(* now - clock_skew and now + clock_skew are taken to lie within           *)
(* datetime.min .. datetime.max, so datetime arithmetic never overflows.   *)
(***************************************************************************)
EXTENDS Integers, FiniteSets, Sequences, TLC

VARIABLES
  args,       \* keyword arguments the caller passes to new_validator
  jwts,       \* the decoded tokens (RawJwt objects) the caller holds
  validator,  \* None, or the JwtValidator object construction returned
  clock,      \* the ambient UTC clock, read by datetime.datetime.now
  raw_jwt,    \* the token passed to the latest validate call
  outcome,    \* how the latest call ended (returned or raised), and the
              \* clock reading at which it was made
  log         \* every (token, outcome) pair validate has produced so far

vars == <<args, jwts, validator, clock, raw_jwt, outcome, log>>

----------------------------------------------------------------------------
(* Optional values and Python truthiness *)

None == <<>>
Some(x) == <<x>>
Get(o) == o[1]

\* bool(s) of an Optional[str]: None and the empty string are falsy
TruthyStr(o) == o # None /\ Get(o) # ""

\* bool(d) of an Optional[timedelta]: None and timedelta(0) are falsy
TruthyDelta(o) == o # None /\ Get(o) # 0

\* bool(d) of an Optional[datetime]: only None is falsy
TruthyDatetime(o) == o # None

----------------------------------------------------------------------------
(* Bounds and program constants *)

\* datetime.timedelta(minutes=10), in seconds
MAX_CLOCK_SKEW == 600

\* how many seconds the ambient clock may advance during a run
MaxClock == 2

\* the instant the ambient clock shows first, and the aware fixed_now used
T0 == 0

----------------------------------------------------------------------------
(* JwtValidator *)

\* Mutant of InitError: the tzinfo of fixed_now is not checked
InitError_NoTzinfoCheck(a) ==
  IF TruthyStr(a.expected_type_header) /\ a.ignore_type_header
    THEN "expected_type_header and ignore_type_header cannot be used together"
  ELSE IF TruthyStr(a.expected_issuer) /\ a.ignore_issuer
    THEN "expected_issuer and ignore_issuer cannot be used together"
  ELSE IF TruthyStr(a.expected_audience) /\ a.ignore_audiences
    THEN "expected_audience and ignore_audiences cannot be used together"
  ELSE IF TruthyDelta(a.clock_skew) /\ Get(a.clock_skew) > MAX_CLOCK_SKEW
    THEN "clock skew too large, max is 10 minutes"
  ELSE ""

\* The message of the ValueError __init__ raises, or "" when it raises none
InitError(a) ==
  IF TruthyStr(a.expected_type_header) /\ a.ignore_type_header
    THEN "expected_type_header and ignore_type_header cannot be used together"
  ELSE IF TruthyStr(a.expected_issuer) /\ a.ignore_issuer
    THEN "expected_issuer and ignore_issuer cannot be used together"
  ELSE IF TruthyStr(a.expected_audience) /\ a.ignore_audiences
    THEN "expected_audience and ignore_audiences cannot be used together"
  ELSE IF TruthyDelta(a.clock_skew) /\ Get(a.clock_skew) > MAX_CLOCK_SKEW
    THEN "clock skew too large, max is 10 minutes"
  ELSE IF TruthyDatetime(a.fixed_now) /\ ~Get(a.fixed_now).tzinfo
    THEN "fixed_now without tzinfo"
  ELSE ""

\* The timedelta __init__ stores in self._clock_skew
StoredClockSkew(a) ==
  IF TruthyDelta(a.clock_skew) THEN Get(a.clock_skew) ELSE 0

\* The object __init__ leaves behind when it raises nothing
JwtValidator(a) ==
  [ _expected_type_header     |-> a.expected_type_header,
    _expected_issuer          |-> a.expected_issuer,
    _expected_audience        |-> a.expected_audience,
    _ignore_type_header       |-> a.ignore_type_header,
    _ignore_issuer            |-> a.ignore_issuer,
    _ignore_audiences         |-> a.ignore_audiences,
    _allow_missing_expiration |-> a.allow_missing_expiration,
    _expect_issued_in_the_past |-> a.expect_issued_in_the_past,
    _clock_skew               |-> StoredClockSkew(a),
    _fixed_now                |-> a.fixed_now ]

has_expected_type_header(v) == v._expected_type_header # None
expected_type_header(v) == v._expected_type_header
has_expected_issuer(v) == v._expected_issuer # None
expected_issuer(v) == v._expected_issuer
has_expected_audience(v) == v._expected_audience # None
expected_audience(v) == v._expected_audience
ignore_type_header(v) == v._ignore_type_header
ignore_issuer(v) == v._ignore_issuer
ignore_audiences(v) == v._ignore_audiences
allow_missing_expiration(v) == v._allow_missing_expiration
expect_issued_in_the_past(v) == v._expect_issued_in_the_past
clock_skew(v) == v._clock_skew
has_fixed_now(v) == v._fixed_now # None
fixed_now(v) == v._fixed_now

----------------------------------------------------------------------------
(* RawJwt: the claim reader validate consumes.  A token is a record of     *)
(* Optional claims; timestamps are aware UTC datetimes, given in seconds.  *)

has_expiration(j) == j.exp # None
expiration(j) == Get(j.exp)
has_not_before(j) == j.nbf # None
not_before(j) == Get(j.nbf)
has_issued_at(j) == j.iat # None
issued_at(j) == Get(j.iat)
has_type_header(j) == j.typ # None
type_header(j) == Get(j.typ)
has_issuer(j) == j.iss # None
issuer(j) == Get(j.iss)
has_audiences(j) == j.aud # None
audiences(j) == Get(j.aud)

----------------------------------------------------------------------------
(* validate *)

Success == [kind |-> "None", msg |-> <<>>]
JwtInvalidError(m) == [kind |-> "JwtInvalidError", msg |-> m]
\* comparing an offset-naive with an offset-aware datetime raises TypeError
TypeError == [kind |-> "TypeError", msg |-> <<>>]

\* Mutant of Now: fixed_now is ignored and the clock always read
Now_AlwaysClock(v, c) == [t |-> c, tzinfo |-> TRUE]

\* The time base: fixed_now if the validator has one, else the UTC clock
Now(v, c) ==
  IF has_fixed_now(v) THEN Get(fixed_now(v)) ELSE [t |-> c, tzinfo |-> TRUE]

\* lines 178-190, the type header step: the error raised, or Success
CheckTypeHeader(v, j) ==
  IF has_expected_type_header(v)
    THEN IF ~has_type_header(j)
           THEN JwtInvalidError(<<"invalid JWT; missing expected type header %s.",
                                  Get(expected_type_header(v))>>)
         ELSE IF Get(expected_type_header(v)) # type_header(j)
           THEN JwtInvalidError(<<"invalid JWT; expected type header %s, but got %s",
                                  Get(expected_type_header(v)), type_header(j)>>)
         ELSE Success
    ELSE IF has_type_header(j) /\ ~ignore_type_header(v)
           THEN JwtInvalidError(<<"invalid JWT; token has type_header set, but validator not.">>)
         ELSE Success

\* Mutant of CheckIssuer: an unexpected issuer is noticed only when truthy
CheckIssuer_Falsy(v, j) ==
  IF has_expected_issuer(v)
    THEN IF ~has_issuer(j)
           THEN JwtInvalidError(<<"invalid JWT; missing expected issuer %s.",
                                  Get(expected_issuer(v))>>)
         ELSE IF Get(expected_issuer(v)) # issuer(j)
           THEN JwtInvalidError(<<"invalid JWT; expected issuer %s, but got %s",
                                  Get(expected_issuer(v)), issuer(j)>>)
         ELSE Success
    ELSE IF TruthyStr(j.iss) /\ ~ignore_issuer(v)
           THEN JwtInvalidError(<<"invalid JWT; token has issuer set, but validator not.">>)
         ELSE Success

\* lines 191-203, the issuer step
CheckIssuer(v, j) ==
  IF has_expected_issuer(v)
    THEN IF ~has_issuer(j)
           THEN JwtInvalidError(<<"invalid JWT; missing expected issuer %s.",
                                  Get(expected_issuer(v))>>)
         ELSE IF Get(expected_issuer(v)) # issuer(j)
           THEN JwtInvalidError(<<"invalid JWT; expected issuer %s, but got %s",
                                  Get(expected_issuer(v)), issuer(j)>>)
         ELSE Success
    ELSE IF has_issuer(j) /\ ~ignore_issuer(v)
           THEN JwtInvalidError(<<"invalid JWT; token has issuer set, but validator not.">>)
         ELSE Success

\* Mutant of CheckAudience: the audiences must equal the expected one
CheckAudience_Equality(v, j) ==
  IF has_expected_audience(v)
    THEN IF ~has_audiences(j) \/ {Get(expected_audience(v))} # audiences(j)
           THEN JwtInvalidError(<<"invalid JWT; missing expected audience %s.",
                                  Get(expected_audience(v))>>)
         ELSE Success
    ELSE IF has_audiences(j) /\ ~ignore_audiences(v)
           THEN JwtInvalidError(<<"invalid JWT; token has audience set, but validator not.">>)
         ELSE Success

\* lines 204-213, the audience step
CheckAudience(v, j) ==
  IF has_expected_audience(v)
    THEN IF ~has_audiences(j) \/ Get(expected_audience(v)) \notin audiences(j)
           THEN JwtInvalidError(<<"invalid JWT; missing expected audience %s.",
                                  Get(expected_audience(v))>>)
         ELSE Success
    ELSE IF has_audiences(j) /\ ~ignore_audiences(v)
           THEN JwtInvalidError(<<"invalid JWT; token has audience set, but validator not.">>)
         ELSE Success

\* Mutant of CheckExpiration: a token expiring exactly at now - clock_skew
\* is still accepted
CheckExpiration_Exclusive(v, j, now) ==
  IF ~has_expiration(j) /\ ~allow_missing_expiration(v)
    THEN JwtInvalidError(<<"token is missing an expiration">>)
  ELSE IF has_expiration(j) /\ ~now.tzinfo
    THEN TypeError
  ELSE IF has_expiration(j) /\ expiration(j) < now.t - clock_skew(v)
    THEN JwtInvalidError(<<"token has expired since %s", ToString(expiration(j))>>)
  ELSE Success

\* lines 161-166, the expiration step, with now the time base
CheckExpiration(v, j, now) ==
  IF ~has_expiration(j) /\ ~allow_missing_expiration(v)
    THEN JwtInvalidError(<<"token is missing an expiration">>)
  ELSE IF has_expiration(j) /\ ~now.tzinfo
    THEN TypeError
  ELSE IF has_expiration(j) /\ expiration(j) <= now.t - clock_skew(v)
    THEN JwtInvalidError(<<"token has expired since %s", ToString(expiration(j))>>)
  ELSE Success

\* Mutant of CheckNotBefore: the skew is subtracted, as for expiration
CheckNotBefore_SkewSubtracted(v, j, now) ==
  IF has_not_before(j) /\ ~now.tzinfo
    THEN TypeError
  ELSE IF has_not_before(j) /\ not_before(j) > now.t - clock_skew(v)
    THEN JwtInvalidError(<<"token cannot be used before %s", ToString(not_before(j))>>)
  ELSE Success

\* lines 167-170, the not-before step
CheckNotBefore(v, j, now) ==
  IF has_not_before(j) /\ ~now.tzinfo
    THEN TypeError
  ELSE IF has_not_before(j) /\ not_before(j) > now.t + clock_skew(v)
    THEN JwtInvalidError(<<"token cannot be used before %s", ToString(not_before(j))>>)
  ELSE Success

\* Mutant of CheckIssuedAt: an issued-at exactly at now + clock_skew fails
CheckIssuedAt_Exclusive(v, j, now) ==
  IF ~expect_issued_in_the_past(v)
    THEN Success
  ELSE IF ~has_issued_at(j)
    THEN JwtInvalidError(<<"token is missing iat claim">>)
  ELSE IF ~now.tzinfo
    THEN TypeError
  ELSE IF issued_at(j) >= now.t + clock_skew(v)
    THEN JwtInvalidError(<<"token has a invalid iat claim in the future: %s",
                           ToString(issued_at(j))>>)
  ELSE Success

\* lines 171-177, the issued-at step
CheckIssuedAt(v, j, now) ==
  IF ~expect_issued_in_the_past(v)
    THEN Success
  ELSE IF ~has_issued_at(j)
    THEN JwtInvalidError(<<"token is missing iat claim">>)
  ELSE IF ~now.tzinfo
    THEN TypeError
  ELSE IF issued_at(j) > now.t + clock_skew(v)
    THEN JwtInvalidError(<<"token has a invalid iat claim in the future: %s",
                           ToString(issued_at(j))>>)
  ELSE Success

\* Statements run in sequence: the first one that raises ends the call
RECURSIVE FirstRaised(_)
FirstRaised(steps) ==
  IF steps = <<>> THEN Success
  ELSE IF Head(steps) # Success THEN Head(steps)
  ELSE FirstRaised(Tail(steps))

\* Mutant of validate: the audience is checked before the issuer
validate_AudienceBeforeIssuer(v, j, c) ==
  FirstRaised(<<CheckExpiration(v, j, Now(v, c)),
                CheckNotBefore(v, j, Now(v, c)),
                CheckIssuedAt(v, j, Now(v, c)),
                CheckTypeHeader(v, j),
                CheckAudience(v, j),
                CheckIssuer(v, j)>>)

\* validate(validator, raw_jwt) called when the clock shows c: what it
\* raises, or Success when it returns
validate(v, j, c) ==
  FirstRaised(<<CheckExpiration(v, j, Now(v, c)),
                CheckNotBefore(v, j, Now(v, c)),
                CheckIssuedAt(v, j, Now(v, c)),
                CheckTypeHeader(v, j),
                CheckIssuer(v, j),
                CheckAudience(v, j)>>)

----------------------------------------------------------------------------
(* The input families.  Each specification draws the constructor's keyword *)
(* arguments and the caller's tokens from one of them.                     *)

Aware(t) == [t |-> t, tzinfo |-> TRUE]
Naive(t) == [t |-> t, tzinfo |-> FALSE]

Args(ETH, EI, EA, IG, AME, EIP, CS, FN) ==
  [ expected_type_header : ETH, expected_issuer : EI, expected_audience : EA,
    ignore_type_header : IG, ignore_issuer : IG, ignore_audiences : IG,
    allow_missing_expiration : AME, expect_issued_in_the_past : EIP,
    clock_skew : CS, fixed_now : FN ]

RawJwts(EXP, NBF, IAT, TYP, ISS, AUD) ==
  [ exp : EXP, nbf : NBF, iat : IAT, typ : TYP, iss : ISS, aud : AUD ]

\* new_validator() with every argument at its default
DefaultArgs ==
  [ expected_type_header |-> None, expected_issuer |-> None,
    expected_audience |-> None, ignore_type_header |-> FALSE,
    ignore_issuer |-> FALSE, ignore_audiences |-> FALSE,
    allow_missing_expiration |-> FALSE, expect_issued_in_the_past |-> FALSE,
    clock_skew |-> None, fixed_now |-> None ]

\* a token with no claims
EmptyJwt ==
  [ exp |-> None, nbf |-> None, iat |-> None, typ |-> None, iss |-> None,
    aud |-> None ]

OptStr(S) == {None} \cup {Some(s) : s \in S}
OptTime(S) == {None} \cup {Some(T0 + d) : d \in S}

\* construction: every argument varies, tokens hardly
ConfigArgs ==
  Args(OptStr({"", "a"}), OptStr({"", "a"}), OptStr({"", "a"}), BOOLEAN,
       BOOLEAN, {FALSE},
       {None} \cup {Some(d) : d \in {-1, 0, 1, MAX_CLOCK_SKEW, MAX_CLOCK_SKEW + 1}},
       {None, Some(Aware(T0)), Some(Naive(T0))})
ConfigJwts ==
  RawJwts(OptTime({0, 1}), {None}, {None}, {None}, {None}, {None})

\* the temporal steps: flags, skew and time base vary, no expectations
ExpOffsets ==
  {-MAX_CLOCK_SKEW - 1, -MAX_CLOCK_SKEW, -MAX_CLOCK_SKEW + 1, -2, -1, 0, 1, 2}
NbfOffsets ==
  {-1, 0, 1, 2, MAX_CLOCK_SKEW - 1, MAX_CLOCK_SKEW, MAX_CLOCK_SKEW + 1,
   MAX_CLOCK_SKEW + 2}
TimeArgs ==
  Args({None}, {None}, {None}, {FALSE}, BOOLEAN, BOOLEAN,
       {None} \cup {Some(d) : d \in {-1, 0, 1, MAX_CLOCK_SKEW}},
       {None, Some(Aware(T0))})
TimeJwts ==
  RawJwts(OptTime(ExpOffsets), OptTime(NbfOffsets), OptTime(NbfOffsets),
          {None}, OptStr({"a"}), {None})

\* the type header, issuer and audience steps: expectations and ignore
\* flags vary, the token's expiration is absent or in the future
ClaimArgs ==
  Args(OptStr({"", "a"}), OptStr({"", "a"}), OptStr({"", "a"}), BOOLEAN,
       {FALSE}, {FALSE}, {None}, {None, Some(Aware(T0))})
ClaimJwts ==
  RawJwts(OptTime({2}), {None}, {None}, OptStr({"", "a", "b"}),
          OptStr({"", "a", "b"}),
          {None, Some({"a"}), Some({"b"}), Some({"a", "b"}), Some({""}),
           Some({"", "a"})})

\* all steps together: every rule can be violated or not
OrderArgs ==
  Args(OptStr({"a"}), OptStr({"a"}), OptStr({"a"}), BOOLEAN, BOOLEAN, BOOLEAN,
       {Some(1)}, {None, Some(Aware(T0)), Some(Naive(T0))})
OrderJwts ==
  RawJwts(OptTime({-1, 3}), OptTime({1, 3}), OptTime({0, 3}), OptStr({"a", "b"}),
          OptStr({"a", "b"}), {None, Some({"a"}), Some({"b"})})

\* repeated calls: the caller holds one or two tokens
IdemArgs ==
  Args({None}, OptStr({"a"}), {None}, {FALSE}, BOOLEAN, BOOLEAN,
       {None, Some(1)}, {None, Some(Aware(T0))})
IdemJwts ==
  RawJwts(OptTime({0, 1, 2}), OptTime({1, 2}), OptTime({2}), {None},
          OptStr({"a"}), {None})

----------------------------------------------------------------------------
(* The calls *)

TypeOK ==
  /\ validator \in {None, Some(JwtValidator(args))}
  /\ clock \in T0 .. T0 + MaxClock
  /\ raw_jwt \in {None} \cup {Some(j) : j \in jwts}

InitWith(A, J) ==
  /\ args \in A
  /\ jwts \in J
  /\ validator = None
  /\ clock = T0
  /\ raw_jwt = None
  /\ outcome = [op |-> "none", at |-> T0, kind |-> "None", msg |-> <<>>]
  /\ log = {}

\* validator = new_validator(**args)
new_validator ==
  /\ outcome.op = "none"
  /\ IF InitError(args) # ""
       THEN /\ outcome' = [op |-> "new_validator", at |-> clock,
                           kind |-> "ValueError", msg |-> <<InitError(args)>>]
            /\ UNCHANGED validator
       ELSE /\ outcome' = [op |-> "new_validator", at |-> clock,
                           kind |-> "None", msg |-> <<>>]
            /\ validator' = Some(JwtValidator(args))
  /\ UNCHANGED <<args, jwts, clock, raw_jwt, log>>

\* validate(validator, j) for one of the caller's tokens
Validate ==
  /\ validator # None
  /\ \E j \in jwts :
       /\ raw_jwt' = Some(j)
       /\ outcome' = [op |-> "validate", at |-> clock]
                       @@ validate(Get(validator), j, clock)
       /\ log' = log \cup {[jwt |-> j, result |-> validate(Get(validator), j, clock)]}
  /\ UNCHANGED <<args, jwts, validator, clock>>

\* a second passes
Tick ==
  /\ validator # None
  /\ clock < T0 + MaxClock
  /\ clock' = clock + 1
  /\ UNCHANGED <<args, jwts, validator, raw_jwt, outcome, log>>

Next == new_validator \/ Validate \/ Tick

InitConfig == InitWith(ConfigArgs, {{j} : j \in ConfigJwts})
SpecConfig == InitConfig /\ [][Next]_vars

InitTime == InitWith(TimeArgs, {{j} : j \in TimeJwts})
SpecTime == InitTime /\ [][Next]_vars

InitClaims == InitWith(ClaimArgs, {{j} : j \in ClaimJwts})
SpecClaims == InitClaims /\ [][Next]_vars

InitOrder == InitWith(OrderArgs, {{j} : j \in OrderJwts})
SpecOrder == InitOrder /\ [][Next]_vars

InitIdem == InitWith(IdemArgs, {{j, k} : j \in IdemJwts, k \in IdemJwts})
SpecIdem == InitIdem /\ [][Next]_vars

----------------------------------------------------------------------------
(* Vocabulary of the properties *)

V == Get(validator)
J == Get(raw_jwt)
Constructed == validator # None
Validated == outcome.op = "validate"
\* what the latest call returned or raised, without the call's bookkeeping
Result == [kind |-> outcome.kind, msg |-> outcome.msg]
Raised(template) == outcome.kind = "JwtInvalidError" /\ outcome.msg[1] = template
\* the instant the latest validate call took as now, in seconds
NowT == Now(V, outcome.at).t

MissingExp == "token is missing an expiration"
Expired == "token has expired since %s"
NotYetValid == "token cannot be used before %s"
MissingIat == "token is missing iat claim"
IatInFuture == "token has a invalid iat claim in the future: %s"
TypMissing == "invalid JWT; missing expected type header %s."
TypDiffers == "invalid JWT; expected type header %s, but got %s"
TypUnexpected == "invalid JWT; token has type_header set, but validator not."
IssMissing == "invalid JWT; missing expected issuer %s."
IssDiffers == "invalid JWT; expected issuer %s, but got %s"
IssUnexpected == "invalid JWT; token has issuer set, but validator not."
AudMissing == "invalid JWT; missing expected audience %s."
AudUnexpected == "invalid JWT; token has audience set, but validator not."

\* The rules in the order the specification lists them:
\* 1 expiration missing, 2 expired, 3 not-before, 4 issued-at missing,
\* 5 issued-at in the future, 6 type header, 7 issuer, 8 audience
Steps == 1 .. 8
StepOf(template) ==
  CASE template = MissingExp -> 1
    [] template = Expired -> 2
    [] template = NotYetValid -> 3
    [] template = MissingIat -> 4
    [] template = IatInFuture -> 5
    [] template \in {TypMissing, TypDiffers, TypUnexpected} -> 6
    [] template \in {IssMissing, IssDiffers, IssUnexpected} -> 7
    [] template \in {AudMissing, AudUnexpected} -> 8
    [] OTHER -> 0

\* Rule k of the specification is violated by token j under policy v at now
Violates(k, v, j, now) ==
  CASE k = 1 -> j.exp = None /\ ~v._allow_missing_expiration
    [] k = 2 -> j.exp # None /\ Get(j.exp) <= now - v._clock_skew
    [] k = 3 -> j.nbf # None /\ Get(j.nbf) > now + v._clock_skew
    [] k = 4 -> v._expect_issued_in_the_past /\ j.iat = None
    [] k = 5 -> v._expect_issued_in_the_past /\ j.iat # None
                /\ Get(j.iat) > now + v._clock_skew
    [] k = 6 -> IF v._expected_type_header # None
                  THEN j.typ # v._expected_type_header
                  ELSE j.typ # None /\ ~v._ignore_type_header
    [] k = 7 -> IF v._expected_issuer # None
                  THEN j.iss # v._expected_issuer
                  ELSE j.iss # None /\ ~v._ignore_issuer
    [] k = 8 -> IF v._expected_audience # None
                  THEN j.aud = None \/ Get(v._expected_audience) \notin Get(j.aud)
                  ELSE j.aud # None /\ ~v._ignore_audiences

Violated == {k \in Steps : Violates(k, V, J, NowT)}
\* the latest validate call got past steps 1 .. k
Passes(k) == \A i \in 1 .. k : i \notin Violated

----------------------------------------------------------------------------
(* C1 *)

ConflictingArgs ==
  \/ args.expected_type_header # None /\ args.ignore_type_header
  \/ args.expected_issuer # None /\ args.ignore_issuer
  \/ args.expected_audience # None /\ args.ignore_audiences

\* C1: construction fails with a configuration error whenever expected_X is
\* set (not None, the empty string included) and ignore_X is true, for X the
\* type header, the issuer or the audience; so no constructed policy has
\* has_expected_X() and ignore_X() both true.
C1_ConflictRejected ==
  /\ outcome.op = "new_validator" /\ ConflictingArgs
       => outcome.kind = "ValueError" /\ ~Constructed
  /\ Constructed =>
       /\ ~(has_expected_type_header(V) /\ ignore_type_header(V))
       /\ ~(has_expected_issuer(V) /\ ignore_issuer(V))
       /\ ~(has_expected_audience(V) /\ ignore_audiences(V))

----------------------------------------------------------------------------
(* C2 *)

\* C2: every policy construction returns has 0 <= clock_skew() <= 10
\* minutes: a clock_skew argument above 10 minutes is rejected, an absent or
\* zero clock_skew is stored as zero, and no constructed policy carries a
\* negative clock_skew.
C2_ClockSkewInRange ==
  /\ outcome.op = "new_validator" /\ args.clock_skew # None
       /\ Get(args.clock_skew) > MAX_CLOCK_SKEW
       => outcome.kind = "ValueError" /\ ~Constructed
  /\ Constructed /\ (args.clock_skew = None \/ args.clock_skew = Some(0))
       => clock_skew(V) = 0
  /\ Constructed => 0 <= clock_skew(V) /\ clock_skew(V) <= MAX_CLOCK_SKEW

----------------------------------------------------------------------------
(* C3 *)

Min(S) == CHOOSE k \in S : \A i \in S : k <= i

\* C3: validate reports exactly the first violated rule in the order
\* expiration (missing, then expired), not-before, issued-at (missing, then
\* in the future), type header, issuer, audience: whenever a token violates
\* rules, the one reason raised is that of the earliest violated step, and
\* no later step's reason is raised while an earlier step is violated.
C3_FirstViolationWins ==
  Validated /\ Violated # {} =>
    /\ outcome.kind = "JwtInvalidError"
    /\ StepOf(outcome.msg[1]) = Min(Violated)

\* a token violating an early and a late rule was reported for the early one
C3_Witness ==
  /\ Validated
  /\ {2, 3, 7, 8} \subseteq Violated
  /\ Raised(Expired)

----------------------------------------------------------------------------
(* C4 *)

\* C4: in the expiration step a token without an expiration claim fails
\* with "missing expiration" iff allow_missing_expiration is false; a token
\* with an expiration claim fails as expired iff
\* expiration <= now - clock_skew, whatever allow_missing_expiration is.
\* With clock_skew = 0 a token with expiration = now fails, and a token
\* whose only claim is expiration = now + 1s passes the default policy.
C4_ExpirationStep ==
  Validated =>
    /\ ~has_expiration(J) =>
         /\ Raised(MissingExp) <=> ~allow_missing_expiration(V)
         /\ ~Raised(Expired)
    /\ has_expiration(J) =>
         /\ Raised(Expired) <=> expiration(J) <= NowT - clock_skew(V)
         /\ ~Raised(MissingExp)
    /\ clock_skew(V) = 0 /\ J.exp = Some(NowT) => Raised(Expired)
    /\ /\ JwtValidator(DefaultArgs) = [V EXCEPT !._fixed_now = None]
       /\ J = [EmptyJwt EXCEPT !.exp = Some(NowT + 1)]
       => Result = Success

\* without skew, a token expiring at the very instant of the call fails
C4_Witness ==
  /\ Validated
  /\ has_fixed_now(V) /\ clock_skew(V) = 0 /\ allow_missing_expiration(V)
  /\ J.exp = Some(NowT)
  /\ Raised(Expired)

----------------------------------------------------------------------------
(* C5 *)

\* C5: the not-before and issued-at steps use the clock_skew of the
\* expiration step in the opposite direction, with an inclusive boundary.
\* A token past the expiration step fails as "not yet valid" iff it has a
\* not-before claim with not_before > now + clock_skew; when
\* expect_issued_in_the_past is true a token past those steps fails iff
\* issued-at is absent or issued_at > now + clock_skew; when it is false the
\* issued-at claim never affects the outcome.
C5_NotBeforeAndIssuedAt ==
  Validated =>
    /\ Passes(2) =>
         (Raised(NotYetValid)
            <=> has_not_before(J) /\ not_before(J) > NowT + clock_skew(V))
    /\ Passes(3) /\ expect_issued_in_the_past(V) =>
         /\ Raised(MissingIat) <=> ~has_issued_at(J)
         /\ Raised(IatInFuture)
              <=> has_issued_at(J) /\ issued_at(J) > NowT + clock_skew(V)
    /\ ~expect_issued_in_the_past(V) =>
         /\ ~Raised(MissingIat) /\ ~Raised(IatInFuture)
         /\ \A x \in OptTime(NbfOffsets) :
              validate(V, [J EXCEPT !.iat = x], outcome.at) = Result

\* not_before and issued_at exactly at now + clock_skew are accepted
C5_Witness ==
  /\ Validated
  /\ clock_skew(V) = 1 /\ expect_issued_in_the_past(V)
  /\ J.nbf = Some(NowT + 1) /\ J.iat = Some(NowT + 1)
  /\ Result = Success

----------------------------------------------------------------------------
(* C6 *)

\* C6: the type header and issuer steps use exact presence and exact string
\* equality.  If the policy expects a value for X, a token past the earlier
\* steps fails iff X is absent or differs from the expected string; if it
\* expects none, the token fails iff X is present (even as the empty
\* string) and ignore_X is false.  A token carrying an issuer fails under
\* the default policy with "token has issuer set, but validator not", and
\* passes when only ignore_issuer is changed to true (the token being
\* otherwise valid: its only other claim is an unexpired expiration).
C6_TypeHeaderAndIssuer ==
  Validated =>
    /\ Passes(5) =>
         /\ has_expected_type_header(V) =>
              /\ Raised(TypMissing) <=> J.typ = None
              /\ Raised(TypDiffers)
                   <=> J.typ # None /\ J.typ # expected_type_header(V)
              /\ ~Raised(TypUnexpected)
         /\ ~has_expected_type_header(V) =>
              /\ Raised(TypUnexpected) <=> J.typ # None /\ ~ignore_type_header(V)
              /\ ~Raised(TypMissing) /\ ~Raised(TypDiffers)
    /\ Passes(6) =>
         /\ has_expected_issuer(V) =>
              /\ Raised(IssMissing) <=> J.iss = None
              /\ Raised(IssDiffers) <=> J.iss # None /\ J.iss # expected_issuer(V)
              /\ ~Raised(IssUnexpected)
         /\ ~has_expected_issuer(V) =>
              /\ Raised(IssUnexpected) <=> J.iss # None /\ ~ignore_issuer(V)
              /\ ~Raised(IssMissing) /\ ~Raised(IssDiffers)
    /\ /\ J.exp # None /\ J.iss # None /\ Passes(2)
       /\ [J EXCEPT !.exp = None, !.iss = None] = EmptyJwt
       /\ [V EXCEPT !._fixed_now = None, !._ignore_issuer = FALSE]
            = JwtValidator(DefaultArgs)
       => IF ignore_issuer(V) THEN Result = Success ELSE Raised(IssUnexpected)

\* an empty-string issuer is present: the default policy rejects it
C6_Witness ==
  /\ Validated
  /\ [V EXCEPT !._fixed_now = None] = JwtValidator(DefaultArgs)
  /\ J.iss = Some("") /\ J.typ = None
  /\ Raised(IssUnexpected)

----------------------------------------------------------------------------
(* C7 *)

\* C7: the audience step is a membership test.  If the policy expects
\* audience a, a token past all earlier steps is accepted iff its audience
\* set is present and contains a, and otherwise fails with the
\* missing-expected-audience reason; if the policy expects no audience, the
\* token fails iff it has an audience claim and ignore_audiences is false.
C7_AudienceMembership ==
  Validated /\ Passes(7) =>
    /\ has_expected_audience(V) =>
         /\ Result = Success
              <=> J.aud # None /\ Get(expected_audience(V)) \in Get(J.aud)
         /\ Result # Success => Raised(AudMissing)
    /\ ~has_expected_audience(V) =>
         /\ Result # Success <=> J.aud # None /\ ~ignore_audiences(V)
         /\ Result # Success => Raised(AudUnexpected)

\* the expected audience is one of several: accepted
C7_Witness ==
  /\ Validated
  /\ expected_audience(V) = Some("a")
  /\ J.aud = Some({"a", "b"})
  /\ Result = Success

----------------------------------------------------------------------------
(* C8 *)

\* C8: validate is idempotent and has no hidden state.  For a policy with
\* fixed_now set, any number of validate calls, in any order and interleaved
\* with calls on other tokens, give the same outcome for the same token; and
\* the policy's accessors and the tokens' claims read the same before and
\* after every call.
C8_Idempotent ==
  /\ [](Constructed /\ has_fixed_now(V) =>
          \A e1 \in log, e2 \in log : e1.jwt = e2.jwt => e1.result = e2.result)
  /\ [][Constructed => validator' = validator /\ jwts' = jwts]_vars

\* both tokens have been validated, at different clock readings, with
\* different outcomes, and the first one validated again
C8_Witness ==
  /\ Constructed /\ has_fixed_now(V)
  /\ Cardinality(log) = 2
  /\ \E e \in log : e.jwt = J /\ e.result = Result /\ e.result # Success
  /\ \E e \in log : e.jwt # J /\ e.result = Success
  /\ outcome.at = T0 + 1

----------------------------------------------------------------------------
(* C9 *)

----------------------------------------------------------------------------
(* C10 *)

TemporalReasons == {Expired, NotYetValid, IatInFuture}
\* the skews a constructed policy can carry within 0 .. 10 minutes
Skews == {0, 1, MAX_CLOCK_SKEW}

\* C10: clock_skew only widens acceptance.  For two policies differing only
\* in clock_skew, s1 <= s2 within 0 .. 10 minutes, and the same time base
\* and token: if validate succeeds under s1 it succeeds under s2; and a
\* failure under s2 for a reason that is not temporal is raised with the
\* same reason under s1 whenever s1 passes the temporal steps.
C10_SkewWidens ==
  Validated /\ clock_skew(V) \in Skews =>
    \A s2 \in Skews : s2 >= clock_skew(V) =>
      LET r2 == validate([V EXCEPT !._clock_skew = s2], J, outcome.at) IN
        /\ Result = Success => r2 = Success
        /\ /\ r2.kind = "JwtInvalidError" /\ r2.msg[1] \notin TemporalReasons
           /\ ~(outcome.kind = "JwtInvalidError"
                /\ outcome.msg[1] \in TemporalReasons)
           => Result = r2

\* accepted without skew, where the widest skew is needed in neither
\* direction; and a larger skew would also accept it
C10_Witness ==
  /\ Validated
  /\ clock_skew(V) = 0 /\ expect_issued_in_the_past(V)
  /\ J.exp # None /\ J.nbf = Some(NowT) /\ J.iat = Some(NowT)
  /\ Result = Success

====
